---------------------------- MODULE Spec2Model ----------------------------
(* The two heart-rate chart components of the repository as one state     *)
(* machine: the single-series view (src/unnamed/part_002) and the         *)
(* multi-series comparison view (FirstComparison.svelte).  One of the two *)
(* is mounted per behaviour (variable view).                              *)
(*                                                                        *)
(* Time.  A sample's timestamp is a whole number of seconds.  timeRange   *)
(* holds JavaScript numbers of seconds that a brush produces as           *)
(* getTime() / 1000; the model stores such a number as its count of       *)
(* milliseconds q (the double q / 1000 is determined by q).               *)
(* A subject identifier "S" + digits is stored as the tuple of its digits *)
(* ("S10" is <<1, 0>>), so that parsing and ordering are computed.        *)
EXTENDS Integers, Sequences, FiniteSets, TLC

VARIABLES
    view,              \* "single" | "multi": which component is mounted
    hr_data,           \* the hr_data prop: a sequence of samples
    mounted,           \* the $effect and onMount have run
    studentId,         \* single view: $state('S1')
    selectedStudents,  \* multi view: $state<string[]>([])
    timeRange,         \* [start, end], each Null or a count of milliseconds
    showAverage,       \* showAverage (single) / showAverages (multi)
    svg,               \* what the last render left on the drawing surface
    hover,             \* samples the last pointer-move reported
    hoverTs,           \* the timestamp (ms) the last pointer-move asked for
    deps,              \* the state the $effect read in its last run
    recomputes,        \* createChart runs caused by the last operation
    lastOp,            \* the last operation
    gesture,           \* <<a, b>>: pixel extent of the last brush gesture
    zooms,             \* brush commits since the last reset
    colorDomain,       \* domain of the d3 ordinal colorScale
    selectedStudentsB, \* a second session of the multi view: its selection
    colorDomainB,      \* ... and the domain of its colorScale
    drag,              \* single view: the brush gesture in progress, if any
    reveal,            \* animation steps elapsed since the paths were drawn
    tooltips,          \* div.tooltip elements attached to the page body
    heartRate,         \* ECG monitor: $state(100), beats per minute
    selectedStudent,   \* ECG monitor: $state(''), the subject of the select
    showSettings       \* ECG monitor: the settings panel is open

vars == <<view, hr_data, mounted, studentId, selectedStudents, timeRange,
          showAverage, svg, hover, hoverTs, deps, recomputes, lastOp,
          gesture, zooms, colorDomain, selectedStudentsB, colorDomainB, drag,
          reveal, tooltips, heartRate, selectedStudent, showSettings>>

\* The state of the ECG monitor component.
monitor == <<heartRate, selectedStudent, showSettings>>

(* ------------------------------ bounds -------------------------------- *)

\* Brush commits explored between two resets.
MaxZoom == 2

\* Tooltip elements on the page beyond which no further render is explored.
MaxTooltips == 6

\* Steps of the reveal animation that are told apart: 0 is its start,
\* RevealSteps its end.
RevealSteps == 2

(* ----------------------------- constants ------------------------------ *)

\* null of timeRange.start / timeRange.end.
Null == -1

HeartRateMin == 40
HeartRateMax == 200
MarginLeft == 80
WidthS == 800
MarginRightS == 100
WidthM == 1800
MarginRightM == 250
PaletteSize == 10

S1 == <<1>>
S2 == <<2>>
S10 == <<1, 0>>
S11 == <<1, 1>>
S12 == <<1, 2>>

Sample(s, t, v) == [student |-> s, timestamp |-> t, value |-> v]

\* Samples of S1 at 0, 10 and 20 s, delivered out of order, with a second
\* subject whose samples cover a strictly smaller range.
DataA == << Sample(S1, 20, 90), Sample(S2, 15, 95), Sample(S1, 10, 110),
            Sample(S1, 0, 100), Sample(S2, 5, 80) >>

\* No sample at timestamp 0; identifiers on both sides of the palette size.
DataB == << Sample(S10, 20, 120), Sample(S2, 10, 70), Sample(S12, 30, 95),
            Sample(S11, 10, 90), Sample(S2, 30, 75) >>

\* Two subjects beyond the fixed domain of the color scale.
DataC == << Sample(S12, 10, 95), Sample(S11, 20, 90), Sample(S11, 10, 85) >>

\* A sample with a negative bpm value.
DataD == << Sample(S1, 25, 80), Sample(S1, 5, -40) >>

Datasets == {DataA, DataB, DataC, DataD, <<>>}

\* The sample sets a change of the hr_data prop delivers.
LiveDatasets == {DataA, DataB, DataC, <<>>}

\* Ends of the brush gestures tried in the single view: both edges of the
\* chart area, one pixel in, and the middle.
BrushPixels == {80, 81, 390, 700}

\* Pointer positions tried in the single view: the edges, the quarter and
\* the middle.
PixelsS == {80, 235, 390, 700}

\* Pointer positions tried in the multi view.
PixelsM == {80, 447, 815, 1550}

(* ------------------------------ helpers ------------------------------- *)

Min2(a, b) == IF a <= b THEN a ELSE b
Max2(a, b) == IF a >= b THEN a ELSE b
Abs(a) == IF a < 0 THEN -a ELSE a

\* d.timestamp * 1000
TsMs(d) == d.timestamp * 1000

\* JavaScript falsiness of timeRange.start / .end: null and 0.
Falsy(x) == x = Null \/ x = 0

\* (x || 0)
OrZero(x) == IF Falsy(x) THEN 0 ELSE x

\* The subjects of the samples, in order of first occurrence:
\* [...new Set(hr_data.map(d => d.student))]
RECURSIVE UniqueStudents(_)
UniqueStudents(hr) ==
    IF hr = <<>> THEN <<>>
    ELSE LET rest == UniqueStudents(SubSeq(hr, 1, Len(hr) - 1))
             s == hr[Len(hr)].student
         IN IF \E i \in 1..Len(rest) : rest[i] = s THEN rest
            ELSE Append(rest, s)

\* parseInt of the digits that follow the "S".
RECURSIVE ParseInt(_)
ParseInt(digits) ==
    IF digits = <<>> THEN 0
    ELSE ParseInt(SubSeq(digits, 1, Len(digits) - 1)) * 10 + digits[Len(digits)]

\* The order of the identifiers as strings.
LexLess(a, b) ==
    \/ Len(a) < Len(b) /\ SubSeq(b, 1, Len(a)) = a
    \/ \E k \in 1..Min2(Len(a), Len(b)) :
           a[k] < b[k] /\ SubSeq(a, 1, k - 1) = SubSeq(b, 1, k - 1)

\* Array.prototype.sort with no comparator.
InsertLexical(sorted, s) ==
    LET k == Cardinality({i \in 1..Len(sorted) : ~LexLess(s, sorted[i])})
    IN SubSeq(sorted, 1, k) \o <<s>> \o SubSeq(sorted, k + 1, Len(sorted))

\* Array.prototype.sort (stable) with the comparator numA - numB.
InsertById(sorted, s) ==
    LET k == Cardinality({i \in 1..Len(sorted) : ParseInt(sorted[i]) <= ParseInt(s)})
    IN SubSeq(sorted, 1, k) \o <<s>> \o SubSeq(sorted, k + 1, Len(sorted))

RECURSIVE sortStudentIds(_)
sortStudentIds(students) ==
    IF students = <<>> THEN <<>>
    ELSE InsertById(sortStudentIds(SubSeq(students, 1, Len(students) - 1)),
                    students[Len(students)])

\* Array.prototype.sort (stable) with the comparator a.timestamp - b.timestamp.
InsertByTimestamp(sorted, d) ==
    LET k == Cardinality({i \in 1..Len(sorted) : sorted[i].timestamp <= d.timestamp})
    IN SubSeq(sorted, 1, k) \o <<d>> \o SubSeq(sorted, k + 1, Len(sorted))

RECURSIVE SortRec(_)
SortRec(data) ==
    IF data = <<>> THEN <<>>
    ELSE InsertByTimestamp(SortRec(SubSeq(data, 1, Len(data) - 1)), data[Len(data)])

Unsorted(data) == data

SortByTimestamp(data) == SortRec(data)

(* --------------------------- time and scale --------------------------- *)

\* The whole milliseconds q in 0..30000 for which the double computation
\* (q / 1000) * 1000 falls just below q, so that new Date(...) truncates it
\* to q - 1 (16.252 * 1000 is 16251.999999999998).
LossyMs ==
    {
      1001, 1003, 1005, 1007, 1009, 1011, 1013, 1015, 1017, 1019, 1021,
      1023, 2002, 2006, 2010, 2014, 2018, 2022, 2026, 2030, 2034, 2038,
      2042, 2046, 4004, 4007, 4012, 4015, 4020, 4023, 4028, 4031, 4036,
      4039, 4044, 4047, 4052, 4055, 4060, 4063, 4068, 4071, 4076, 4079,
      4084, 4087, 4092, 4095, 8001, 8008, 8011, 8014, 8017, 8024, 8027,
      8030, 8033, 8040, 8043, 8046, 8049, 8056, 8059, 8062, 8065, 8072,
      8075, 8078, 8081, 8088, 8091, 8094, 8097, 8104, 8107, 8110, 8120,
      8123, 8126, 8133, 8136, 8139, 8142, 8149, 8152, 8155, 8158, 8165,
      8168, 8171, 8174, 8181, 8184, 8187, 8190, 16002, 16005, 16016,
      16019, 16022, 16025, 16028, 16031, 16034, 16037, 16048, 16051,
      16054, 16057, 16060, 16063, 16066, 16069, 16080, 16083, 16086,
      16089, 16092, 16095, 16098, 16112, 16115, 16118, 16121, 16124,
      16127, 16130, 16141, 16144, 16147, 16150, 16153, 16156, 16159,
      16162, 16173, 16176, 16179, 16182, 16185, 16188, 16191, 16194,
      16205, 16208, 16211, 16214, 16217, 16220, 16223, 16237, 16240,
      16243, 16246, 16249, 16252, 16255, 16266, 16269, 16272, 16275,
      16278, 16281, 16284, 16287, 16298, 16301, 16304, 16307, 16310,
      16313, 16316, 16319, 16330, 16333, 16336, 16339, 16342, 16345,
      16348, 16362, 16365, 16368, 16371, 16374, 16377, 16380 }

\* new Date(seconds * 1000).getTime(), for the number of seconds q / 1000.
DateMs(q) == IF q \in LossyMs THEN q - 1 ELSE q

\* The domain of xScale, in milliseconds.
XDomain(tr) == << DateMs(OrZero(tr.start)), DateMs(OrZero(tr.end)) >>

\* The range of xScale: [margin.left, width - margin.right].
RangeHi(v) == IF v = "single" THEN WidthS - MarginRightS ELSE WidthM - MarginRightM

\* xScale.invert(x).getTime(): the interpolation a * (1 - t) + b * t with
\* t = (x - left) / (right - left), truncated to whole milliseconds by Date.
Invert(v, dom, x) ==
    (dom[1] * (RangeHi(v) - x) + dom[2] * (x - MarginLeft))
        \div (RangeHi(v) - MarginLeft)

\* xScale(t) - margin.left for a time t in milliseconds, as the exact fraction
\* XScaleNum / XScaleDen: (t - d0) / (d1 - d0) of the range, and the middle of
\* the range when the domain has no width (d3 normalizes it to 0.5).
XScaleNum(v, dom, t) ==
    IF dom[1] = dom[2] THEN RangeHi(v) - MarginLeft
    ELSE (t - dom[1]) * (RangeHi(v) - MarginLeft)

XScaleDen(dom) == IF dom[1] = dom[2] THEN 2 ELSE dom[2] - dom[1]

\* d3.min(timestamps) ? Number(d3.min(timestamps)) : 0, and the same for max,
\* as milliseconds.
MinOrZero(hr) ==
    IF hr = <<>> THEN 0
    ELSE LET m == CHOOSE t \in {hr[i].timestamp : i \in 1..Len(hr)} :
                      \A i \in 1..Len(hr) : t <= hr[i].timestamp
         IN IF m # 0 THEN m * 1000 ELSE 0

MaxOrZero(hr) ==
    IF hr = <<>> THEN 0
    ELSE LET m == CHOOSE t \in {hr[i].timestamp : i \in 1..Len(hr)} :
                      \A i \in 1..Len(hr) : t >= hr[i].timestamp
         IN IF m # 0 THEN m * 1000 ELSE 0

\* The extent resetZoom and the initialisation take: over all of hr_data.
FullRange(hr) == [start |-> MinOrZero(hr), end |-> MaxOrZero(hr)]

\* createChart without the initialisation.
InitNever(tr, hr) == tr

\* "Initialize timeRange if not set": if (!timeRange.start || !timeRange.end).
InitTimeRange(tr, hr) ==
    IF Falsy(tr.start) \/ Falsy(tr.end) THEN FullRange(hr) ELSE tr

\* hr_data.filter(...) of the single view.
FilterS(hr, sid, tr) ==
    SelectSeq(hr, LAMBDA d : /\ d.student = sid
                             /\ TsMs(d) >= OrZero(tr.start)
                             /\ TsMs(d) <= OrZero(tr.end))

\* hr_data.filter(...) of the multi view.
FilterM(hr, sel, tr) ==
    SelectSeq(hr, LAMBDA d : /\ \E i \in 1..Len(sel) : sel[i] = d.student
                             /\ TsMs(d) >= OrZero(tr.start)
                             /\ TsMs(d) <= OrZero(tr.end))

RECURSIVE SumValues(_)
SumValues(data) ==
    IF data = <<>> THEN 0
    ELSE SumValues(SubSeq(data, 1, Len(data) - 1)) + data[Len(data)].value

\* The mean of all loaded samples of the subject, whatever the window.
MeanOfLoaded(s, data) ==
    LET all == SelectSeq(hr_data, LAMBDA d : d.student = s)
    IN [student |-> s, sum |-> SumValues(all), n |-> Len(all)]

\* d3.mean(data, d => d.value), kept as the exact fraction sum / n.
Mean(s, data) == [student |-> s, sum |-> SumValues(data), n |-> Len(data)]

(* ------------------------- the drawing surface ------------------------ *)

\* d3.select(svgRef).selectAll("*").remove()
ClearSurface(old) ==
    [msgs |-> 0, texts |-> 0, axes |-> FALSE, paths |-> <<>>,
     meanLines |-> <<>>, legend |-> <<>>, domain |-> <<0, 0>>]

\* The text element showEmptySelectionMessage appends: it is given its
\* position and style, and no text content.
AppendMessage(s) == [s EXCEPT !.msgs = @ + 1]

\* The text element the no-data branch of the single view appends, with its
\* content "No heart rate data available for Student ...".
AppendNoDataText(s) == [s EXCEPT !.msgs = @ + 1, !.texts = @ + 1]

\* createChart of the single view: the window it leaves, the surface it
\* draws and the state it read.
CreateChartS(tr, sid, avg, hr, old) ==
    LET tr1 == InitTimeRange(tr, hr)
        filteredData == FilterS(hr, sid, tr1)
    IN IF filteredData = <<>>
       THEN [timeRange |-> tr1,
             svg |-> AppendNoDataText(ClearSurface(old)),
             reads |-> {"timeRange", "studentId"}]
       ELSE LET data == SortByTimestamp(filteredData)
            IN [timeRange |-> tr1,
                svg |-> [msgs |-> 0, texts |-> 0, axes |-> TRUE,
                         paths |-> << [student |-> sid, data |-> data] >>,
                         meanLines |-> IF avg THEN << Mean(sid, data) >> ELSE <<>>,
                         legend |-> <<>>,
                         domain |-> XDomain(tr1)],
                reads |-> {"timeRange", "studentId", "showAverage"}]

(* --------------------------- the color scale -------------------------- *)

\* The domain colorScale is constructed with: 'S1' ... 'S10'.
BaseColorDomain == << <<1>>, <<2>>, <<3>>, <<4>>, <<5>>, <<6>>, <<7>>, <<8>>,
                      <<9>>, <<1, 0>> >>

InDomain(cdom, s) == \E i \in 1..Len(cdom) : cdom[i] = s

\* colorScale(s), its effect on the scale: d3's ordinal scale appends an
\* identifier it has not seen to its domain.
ColorCall(cdom, s) == IF InDomain(cdom, s) THEN cdom ELSE Append(cdom, s)

\* colorScale(s), its result, as an index into the palette:
\* range[i % range.length] for the position i of s in the domain.
ColorIndex(cdom, s) ==
    ((CHOOSE i \in 1..Len(cdom) : cdom[i] = s) - 1) % PaletteSize

RECURSIVE ColorCalls(_, _)
ColorCalls(cdom, students) ==
    IF students = <<>> THEN cdom
    ELSE ColorCall(ColorCalls(cdom, SubSeq(students, 1, Len(students) - 1)),
                   students[Len(students)])

(* ---------------------- createChart, multi view ----------------------- *)

\* The legend items, in the order the legend draws them.
LegendOrder(sel) == sel

CreateChartM(tr, sel, avg, hr, cdom, old) ==
    IF sel = <<>>
    THEN [timeRange |-> tr, svg |-> AppendMessage(ClearSurface(old)),
          colorDomain |-> cdom, reads |-> {"selectedStudents"}]
    ELSE
    LET tr1 == InitTimeRange(tr, hr)
        filteredData == FilterM(hr, sel, tr1)
        \* d3.group: one entry per subject, in order of first occurrence
        groups == UniqueStudents(filteredData)
        legend == LegendOrder(sel)
        cdom1 == ColorCalls(ColorCalls(cdom, groups), legend)
        series(s) == SortByTimestamp(SelectSeq(filteredData, LAMBDA d : d.student = s))
    IN [timeRange |-> tr1,
        svg |-> [msgs |-> 0, texts |-> 0, axes |-> TRUE,
                 paths |-> [i \in 1..Len(groups) |->
                              [student |-> groups[i], data |-> series(groups[i]),
                               color |-> ColorIndex(cdom1, groups[i])]],
                 meanLines |-> IF avg
                               THEN [i \in 1..Len(groups) |->
                                       Mean(groups[i], series(groups[i]))]
                               ELSE <<>>,
                 legend |-> legend,
                 domain |-> XDomain(tr1)],
        colorDomain |-> cdom1,
        reads |-> {"selectedStudents", "timeRange"}
                  \cup (IF groups # <<>> THEN {"showAverage"} ELSE {})]

(* ------------------------ the loaded collection ----------------------- *)

\* createChart that sorts hr_data itself.
SortedInPlace(hr) == SortByTimestamp(hr)

\* The array hr_data after an operation: filter, map and the spread of a Set
\* build new arrays, and the in-place sorts act on those.
HrDataAfter(hr) == hr

(* ------------------- explicit calls and the $effect ------------------- *)

\* A render in progress: the window, the surface, the color scale, what the
\* $effect last read, and the createChart runs so far in this operation.
Conf(tr, s, cdom, d, n) ==
    [timeRange |-> tr, svg |-> s, colorDomain |-> cdom, deps |-> d, n |-> n]

\* createChart() called from a handler or from onMount.
Explicit(v, c, sid, sel, avg, hr) ==
    IF v = "single"
    THEN LET r == CreateChartS(c.timeRange, sid, avg, hr, c.svg)
         IN Conf(r.timeRange, r.svg, c.colorDomain, c.deps, c.n + 1)
    ELSE LET r == CreateChartM(c.timeRange, sel, avg, hr, c.colorDomain, c.svg)
         IN Conf(r.timeRange, r.svg, r.colorDomain, c.deps, c.n + 1)

\* One run of the $effect: createChart (single), createChart or
\* showEmptySelectionMessage (multi); it records what it read.
Effect(v, c, sid, sel, avg, hr) ==
    IF v = "single"
    THEN LET r == CreateChartS(c.timeRange, sid, avg, hr, c.svg)
         IN Conf(r.timeRange, r.svg, c.colorDomain, r.reads, c.n + 1)
    ELSE IF sel # <<>>
    THEN LET r == CreateChartM(c.timeRange, sel, avg, hr, c.colorDomain, c.svg)
         IN Conf(r.timeRange, r.svg, r.colorDomain, r.reads, c.n + 1)
    ELSE Conf(c.timeRange, AppendMessage(c.svg), c.colorDomain,
              {"selectedStudents"}, c.n)

\* The $effect after an operation: it runs when state it read was written,
\* and once more when its own run wrote state it read.
Flush(v, c, dirty, sid, sel, avg, hr) ==
    IF ~dirty THEN c
    ELSE LET c1 == Effect(v, c, sid, sel, avg, hr)
         IN IF c1.timeRange # c.timeRange /\ "timeRange" \in c1.deps
            THEN Effect(v, c1, sid, sel, avg, hr)
            ELSE c1

Here == Conf(timeRange, svg, colorDomain, deps, 0)

\* The operation's outcome becomes the state.
\* The div.tooltip elements an operation appends to the body: one per
\* createChart of the multi view that gets past the empty-selection test,
\* one in onMount of the single view.
TooltipsAdded(c) ==
    IF view = "multi" THEN (IF c.svg.axes THEN c.n ELSE 0)
    ELSE (IF mounted THEN 0 ELSE 1)

Commit(c) ==
    /\ tooltips + TooltipsAdded(c) <= MaxTooltips
    /\ tooltips' = tooltips + TooltipsAdded(c)
    /\ reveal' = IF c.n > 0 \/ c.svg.paths = <<>> THEN 0 ELSE reveal
    /\ timeRange' = c.timeRange
    /\ svg' = c.svg
    /\ colorDomain' = c.colorDomain
    /\ deps' = c.deps
    /\ recomputes' = c.n
    /\ hover' = <<>>
    /\ hoverTs' = Null

(* ------------------------------- Init --------------------------------- *)

NoSurface == ClearSurface(<<>>)

\* No brush gesture is in progress.
NoDrag == [active |-> FALSE, a |-> 0, domain |-> <<0, 0>>, changed |-> FALSE]

Init ==
    /\ view \in {"single", "multi"}
    /\ hr_data \in Datasets
    /\ mounted = FALSE
    /\ studentId = S1
    /\ selectedStudents = <<>>
    /\ timeRange = [start |-> Null, end |-> Null]
    /\ showAverage = FALSE
    /\ svg = NoSurface
    /\ hover = <<>>
    /\ hoverTs = Null
    /\ deps = {}
    /\ recomputes = 0
    /\ lastOp = "init"
    /\ gesture = <<>>
    /\ zooms = 0
    /\ colorDomain = BaseColorDomain
    /\ selectedStudentsB = <<>>
    /\ colorDomainB = BaseColorDomain
    /\ drag = NoDrag
    /\ reveal = 0
    /\ tooltips = 0
    /\ heartRate = 100
    /\ selectedStudent = ""
    /\ showSettings = FALSE

\* The component mounts: the $effect runs, then onMount.
Mount ==
    /\ ~mounted
    /\ mounted' = TRUE
    /\ lastOp' = "mount"
    /\ LET c1 == Effect(view, Here, studentId, selectedStudents, showAverage, hr_data)
           c2 == IF view = "single" \/ selectedStudents # <<>>
                 THEN Explicit(view, c1, studentId, selectedStudents, showAverage, hr_data)
                 ELSE [c1 EXCEPT !.svg = AppendMessage(@)]
           c3 == Flush(view, c2, c1.timeRange # timeRange /\ "timeRange" \in c1.deps,
                       studentId, selectedStudents, showAverage, hr_data)
       IN Commit(c3)
    /\ hr_data' = HrDataAfter(hr_data)
    /\ UNCHANGED <<monitor, view, studentId, selectedStudents, showAverage,
                   gesture, zooms, selectedStudentsB, colorDomainB, drag>>

(* ------------------------- nearest-point search ----------------------- *)

\* d3.bisector(d => d.timestamp).left(data, timestamp): binary search, on
\* 0-based indices lo and hi.
RECURSIVE BisectLeft(_, _, _, _)
BisectLeft(data, q, lo, hi) ==
    IF lo < hi
    THEN LET mid == (lo + hi) \div 2
         IN IF TsMs(data[mid + 1]) < q
            THEN BisectLeft(data, q, mid + 1, hi)
            ELSE BisectLeft(data, q, lo, mid)
    ELSE lo

\* timestamp - d0.timestamp > d1.timestamp - timestamp ? d1 : d0
CloserLater(d0, d1, q) == IF q - TsMs(d0) >= TsMs(d1) - q THEN d1 ELSE d0

Closer(d0, d1, q) == IF q - TsMs(d0) > TsMs(d1) - q THEN d1 ELSE d0

\* The single view's choice: the neighbours are clamped to the series.
NearestS(data, q) ==
    LET index == BisectLeft(data, q, 0, Len(data))
        d0 == data[Max2(0, index - 1) + 1]
        d1 == data[Min2(Len(data) - 1, index) + 1]
    IN Closer(d0, d1, q)

\* The multi view's choice for one series: a sample only
\* if (index > 0 && index < data.length).
NearestM(data, q) ==
    LET index == BisectLeft(data, q, 0, Len(data))
    IN IF index > 0 /\ index < Len(data)
       THEN << Closer(data[index], data[index + 1], q) >>
       ELSE <<>>

RECURSIVE ReportAll(_, _)
ReportAll(paths, q) ==
    IF paths = <<>> THEN <<>>
    ELSE ReportAll(SubSeq(paths, 1, Len(paths) - 1), q)
         \o NearestM(paths[Len(paths)].data, q)

(* ----------------------- single view: operations ---------------------- *)

\* The extent in the order the pointer travelled.
SelectionAsDragged(a, b) == [null |-> a = b, x0 |-> a, x1 |-> b]

\* event.selection of d3.brushX at the end of a gesture from a to b: the
\* ordered extent [x0, x1], or null when the extent is empty.
Selection(a, b) == [null |-> a = b, x0 |-> Min2(a, b), x1 |-> Max2(a, b)]

\* if (!event.selection) return;
BrushedAlways(selection) == TRUE

BrushedCommits(selection) == ~selection.null

\* brushed, called at the end of a gesture from pixel a to pixel b; dom is
\* the domain of the xScale the handler closes over.
Brushed(dom, a, b) ==
    /\ lastOp' = "brushed"
    /\ gesture' = <<a, b>>
    /\ LET selection == Selection(a, b)
       IN IF ~BrushedCommits(selection)
          THEN /\ recomputes' = 0
               /\ UNCHANGED <<timeRange, svg, colorDomain, deps, hover, hoverTs, zooms,
                              reveal, tooltips>>
          ELSE LET tr1 == [start |-> Invert(view, dom, selection.x0),
                           end |-> Invert(view, dom, selection.x1)]
                   c1 == Explicit(view, [Here EXCEPT !.timeRange = tr1],
                                  studentId, selectedStudents, showAverage, hr_data)
                   dirty == /\ "timeRange" \in deps
                            /\ (tr1 # timeRange \/ c1.timeRange # tr1)
               IN /\ Commit(Flush(view, c1, dirty, studentId, selectedStudents,
                                  showAverage, hr_data))
                  /\ zooms' = zooms + 1

\* A whole brush gesture from pixel a to pixel b on the chart on display.
Brush(a, b) ==
    /\ view = "single" /\ mounted /\ svg.axes
    /\ zooms < MaxZoom
    /\ Brushed(svg.domain, a, b)
    /\ hr_data' = HrDataAfter(hr_data)
    /\ UNCHANGED <<monitor, view, mounted, studentId, selectedStudents,
                   showAverage, selectedStudentsB, colorDomainB, drag>>

\* A double-click on the chart.  No dblclick listener is registered: the
\* brush sees two presses without movement, each ending with an empty
\* extent, and brushed returns at once for both.
DoubleClick ==
    /\ view = "single" /\ mounted /\ svg.axes
    /\ lastOp' = "dblclick"
    /\ gesture' = <<>>
    /\ recomputes' = 0
    /\ UNCHANGED <<monitor, view, hr_data, mounted, studentId, selectedStudents, timeRange,
                   showAverage, svg, hover, hoverTs, deps, zooms, colorDomain,
                   selectedStudentsB, colorDomainB, drag, reveal,
                   tooltips>>

\* The extent resetZoom restores.
ResetRangeOfSelected(hr) == FullRange(SelectSeq(hr, LAMBDA d : d.student = studentId))

ResetRange(hr) == FullRange(hr)

resetZoom ==
    /\ view = "single" /\ mounted
    /\ lastOp' = "resetZoom"
    /\ gesture' = <<>>
    /\ zooms' = 0
    /\ LET tr1 == ResetRange(hr_data)
           c1 == Explicit(view, [Here EXCEPT !.timeRange = tr1],
                          studentId, selectedStudents, showAverage, hr_data)
           dirty == /\ "timeRange" \in deps
                    /\ (tr1 # timeRange \/ c1.timeRange # tr1)
       IN Commit(Flush(view, c1, dirty, studentId, selectedStudents,
                       showAverage, hr_data))
    /\ hr_data' = HrDataAfter(hr_data)
    /\ UNCHANGED <<monitor, view, mounted, studentId, selectedStudents,
                   showAverage, selectedStudentsB, colorDomainB, drag>>

\* handleStudentChange: the select element changes to another option.
handleStudentChange(s) ==
    /\ view = "single" /\ mounted
    /\ InDomain(UniqueStudents(hr_data), s) /\ s # studentId
    /\ lastOp' = "handleStudentChange"
    /\ gesture' = <<>>
    /\ studentId' = s
    /\ Commit(Flush(view, Here, "studentId" \in deps, s, selectedStudents,
                    showAverage, hr_data))
    /\ hr_data' = HrDataAfter(hr_data)
    /\ UNCHANGED <<monitor, view, mounted, selectedStudents, showAverage, zooms,
                   selectedStudentsB, colorDomainB, drag>>

\* A toggle that also restores the full extent, as resetZoom does.
ToggleAverageAndReset ==
    /\ view = "single" /\ mounted
    /\ lastOp' = "toggleAverage"
    /\ gesture' = <<>>
    /\ showAverage' = ~showAverage
    /\ LET c1 == Explicit(view, [Here EXCEPT !.timeRange = ResetRange(hr_data)],
                          studentId, selectedStudents, ~showAverage, hr_data)
       IN Commit(Flush(view, c1, TRUE, studentId, selectedStudents,
                       ~showAverage, hr_data))
    /\ hr_data' = HrDataAfter(hr_data)
    /\ UNCHANGED <<monitor, view, mounted, studentId, selectedStudents, zooms,
                   selectedStudentsB, colorDomainB, drag>>

toggleAverage ==
    /\ view = "single" /\ mounted
    /\ lastOp' = "toggleAverage"
    /\ gesture' = <<>>
    /\ showAverage' = ~showAverage
    /\ LET c1 == Explicit(view, Here, studentId, selectedStudents, ~showAverage, hr_data)
           dirty == "showAverage" \in deps
                    \/ ("timeRange" \in deps /\ c1.timeRange # timeRange)
       IN Commit(Flush(view, c1, dirty, studentId, selectedStudents,
                       ~showAverage, hr_data))
    /\ hr_data' = HrDataAfter(hr_data)
    /\ UNCHANGED <<monitor, view, mounted, studentId, selectedStudents, zooms,
                   selectedStudentsB, colorDomainB, drag>>

\* The mousemove handler of the overlay, pointer at pixel x.
MouseMoveS(x) ==
    /\ view = "single" /\ mounted /\ svg.axes
    /\ lastOp' = "mousemove"
    /\ recomputes' = 0
    /\ IF x < MarginLeft \/ x > RangeHi(view)
       THEN hover' = <<>> /\ hoverTs' = Null
       ELSE LET timestamp == Invert(view, svg.domain, x)
            IN /\ hoverTs' = timestamp
               /\ hover' = << NearestS(svg.paths[1].data, timestamp) >>
    /\ UNCHANGED <<monitor, view, hr_data, mounted, studentId, selectedStudents, timeRange,
                   showAverage, svg, deps, gesture, zooms, colorDomain,
                   selectedStudentsB, colorDomainB, drag, reveal,
                   tooltips>>

\* The mouseout handler of the overlay (both views).
MouseOut ==
    /\ mounted /\ svg.axes
    /\ lastOp' = "mouseout"
    /\ recomputes' = 0
    /\ hover' = <<>> /\ hoverTs' = Null
    /\ UNCHANGED <<monitor, view, hr_data, mounted, studentId, selectedStudents, timeRange,
                   showAverage, svg, deps, gesture, zooms, colorDomain,
                   selectedStudentsB, colorDomainB, drag, reveal,
                   tooltips>>

(* ------------------------ multi view: operations ---------------------- *)

IncludesNever(sel, s) == FALSE

\* selectedStudents.includes(student)
Includes(sel, s) == \E i \in 1..Len(sel) : sel[i] = s

ShowEmptyNoClear(c) == [c EXCEPT !.svg = AppendMessage(@)]

\* d3.select(svgRef).selectAll("*").remove(); showEmptySelectionMessage();
ShowEmpty(c) == [c EXCEPT !.svg = AppendMessage(ClearSurface(@))]

\* What toggleStudentSelection draws once the selection is updated.
ToggleRender(c, sel) ==
    IF Len(sel) > 0
    THEN Explicit(view, c, studentId, sel, showAverage, hr_data)
    ELSE ShowEmpty(c)

\* toggleStudentSelection(student), from the button of a loaded subject.
toggleStudentSelection(s) ==
    /\ view = "multi" /\ mounted
    /\ InDomain(UniqueStudents(hr_data), s)
    /\ lastOp' = "toggleStudentSelection"
    /\ LET sel == IF Includes(selectedStudents, s)
                  THEN SelectSeq(selectedStudents, LAMBDA x : x # s)
                  ELSE Append(selectedStudents, s)
       IN /\ selectedStudents' = sel
          /\ Commit(Flush(view, ToggleRender(Here, sel), "selectedStudents" \in deps,
                          studentId, sel, showAverage, hr_data))
    /\ hr_data' = HrDataAfter(hr_data)
    /\ UNCHANGED <<monitor, view, mounted, studentId, showAverage, gesture, zooms,
                   selectedStudentsB, colorDomainB, drag>>

selectAllStudents ==
    /\ view = "multi" /\ mounted
    /\ lastOp' = "selectAllStudents"
    /\ LET sel == sortStudentIds(UniqueStudents(hr_data))
       IN /\ selectedStudents' = sel
          /\ Commit(Flush(view,
                          Explicit(view, Here, studentId, sel, showAverage, hr_data),
                          "selectedStudents" \in deps,
                          studentId, sel, showAverage, hr_data))
    /\ hr_data' = HrDataAfter(hr_data)
    /\ UNCHANGED <<monitor, view, mounted, studentId, showAverage, gesture, zooms,
                   selectedStudentsB, colorDomainB, drag>>

clearSelections ==
    /\ view = "multi" /\ mounted
    /\ lastOp' = "clearSelections"
    /\ selectedStudents' = <<>>
    /\ Commit(Flush(view, ShowEmpty(Here), "selectedStudents" \in deps,
                    studentId, <<>>, showAverage, hr_data))
    /\ hr_data' = HrDataAfter(hr_data)
    /\ UNCHANGED <<monitor, view, mounted, studentId, showAverage, gesture, zooms,
                   selectedStudentsB, colorDomainB, drag>>

toggleAverages ==
    /\ view = "multi" /\ mounted
    /\ lastOp' = "toggleAverages"
    /\ showAverage' = ~showAverage
    /\ LET c1 == IF Len(selectedStudents) > 0
                 THEN Explicit(view, Here, studentId, selectedStudents,
                               ~showAverage, hr_data)
                 ELSE Here
           dirty == "showAverage" \in deps
                    \/ ("timeRange" \in deps /\ c1.timeRange # timeRange)
       IN Commit(Flush(view, c1, dirty, studentId, selectedStudents,
                       ~showAverage, hr_data))
    /\ hr_data' = HrDataAfter(hr_data)
    /\ UNCHANGED <<monitor, view, mounted, studentId, selectedStudents, gesture,
                   zooms, selectedStudentsB, colorDomainB, drag>>

\* The mousemove handler of the overlay, pointer at pixel x.
MouseMoveM(x) ==
    /\ view = "multi" /\ mounted /\ svg.axes
    /\ lastOp' = "mousemove"
    /\ recomputes' = 0
    /\ IF x < MarginLeft \/ x > RangeHi(view)
       THEN hover' = <<>> /\ hoverTs' = Null
       ELSE LET timestamp == Invert(view, svg.domain, x)
            IN /\ hoverTs' = timestamp
               /\ hover' = ReportAll(svg.paths, timestamp)
    /\ UNCHANGED <<monitor, view, hr_data, mounted, studentId, selectedStudents, timeRange,
                   showAverage, svg, deps, gesture, zooms, colorDomain,
                   selectedStudentsB, colorDomainB, drag, reveal,
                   tooltips>>

\* Ends of the drags tried over the chart area of the multi view.
DragPixelsM == {447, 1550}

\* A press at pixel a, a drag to pixel b and a release over the chart area
\* of the multi view.  The overlay listens to mousemove and mouseout only and
\* no brush is attached: the gesture amounts to the pointer moving to b.
DragM(a, b) ==
    /\ view = "multi" /\ mounted /\ svg.axes
    /\ a # b
    /\ lastOp' = "drag"
    /\ gesture' = <<a, b>>
    /\ recomputes' = 0
    /\ hoverTs' = Invert(view, svg.domain, b)
    /\ hover' = ReportAll(svg.paths, Invert(view, svg.domain, b))
    /\ UNCHANGED <<monitor, view, hr_data, mounted, studentId, selectedStudents, timeRange,
                   showAverage, svg, deps, zooms, colorDomain,
                   selectedStudentsB, colorDomainB, drag, reveal,
                   tooltips>>

(* --------------------------- specification ---------------------------- *)

Next ==
    \/ Mount
    \/ \E a, b \in BrushPixels : Brush(a, b)
    \/ DoubleClick
    \/ resetZoom
    \/ \E s \in {S1, S2, S10, S11, S12} : handleStudentChange(s)
    \/ toggleAverage
    \/ \E x \in PixelsS : MouseMoveS(x)
    \/ MouseOut
    \/ \E s \in {S1, S2, S10, S11, S12} : toggleStudentSelection(s)
    \/ selectAllStudents
    \/ clearSelections
    \/ toggleAverages
    \/ \E x \in PixelsM : MouseMoveM(x)
    \/ \E a, b \in DragPixelsM : DragM(a, b)

Spec == Init /\ [][Next]_vars

(* ------------- two sessions of the multi view, side by side ----------- *)

\* The color scale of a second session after its createChart for
\* selection sel (every createChart of the multi view runs on the full
\* extent: nothing in that view narrows the window).
ColorsAfter(cdom, sel) ==
    IF sel = <<>> THEN cdom
    ELSE (CreateChartM([start |-> Null, end |-> Null], sel, FALSE, hr_data,
                       cdom, NoSurface)).colorDomain

\* toggleStudentSelection(s) in the second session.
toggleStudentSelectionB(s) ==
    /\ view = "multi" /\ mounted
    /\ InDomain(UniqueStudents(hr_data), s)
    /\ LET sel == IF Includes(selectedStudentsB, s)
                  THEN SelectSeq(selectedStudentsB, LAMBDA x : x # s)
                  ELSE Append(selectedStudentsB, s)
       IN /\ selectedStudentsB' = sel
          /\ colorDomainB' = ColorsAfter(colorDomainB, sel)
    /\ UNCHANGED <<monitor, view, hr_data, mounted, studentId, selectedStudents, timeRange,
                   showAverage, svg, hover, hoverTs, deps, recomputes, lastOp,
                   gesture, zooms, colorDomain, drag, reveal,
                   tooltips>>

\* selectAllStudents in the second session.
selectAllStudentsB ==
    /\ view = "multi" /\ mounted
    /\ LET sel == sortStudentIds(UniqueStudents(hr_data))
       IN /\ selectedStudentsB' = sel
          /\ colorDomainB' = ColorsAfter(colorDomainB, sel)
    /\ UNCHANGED <<monitor, view, hr_data, mounted, studentId, selectedStudents, timeRange,
                   showAverage, svg, hover, hoverTs, deps, recomputes, lastOp,
                   gesture, zooms, colorDomain, drag, reveal,
                   tooltips>>

InitColor == Init /\ view = "multi" /\ hr_data = DataC

NextColor ==
    \/ Mount
    \/ \E s \in {S11, S12} : toggleStudentSelection(s)
    \/ selectAllStudents
    \/ clearSelections
    \/ toggleAverages
    \/ \E x \in PixelsM : MouseMoveM(x)
    \/ MouseOut
    \/ \E s \in {S11, S12} : toggleStudentSelectionB(s)
    \/ selectAllStudentsB

SpecColor == InitColor /\ [][NextColor]_vars

(* ---------------- the loaded samples change while mounted ------------- *)

\* Message elements on the surface beyond which no further change of the
\* samples is explored (each one on an empty selection adds an element).
MaxMessages == 3

\* The parent assigns the hr_data prop another array: the $effect, which
\* read hr_data, runs again.  A brush gesture in progress stays in progress.
DataChange(d) ==
    /\ mounted /\ d # hr_data
    /\ svg.msgs < MaxMessages
    /\ hr_data' = HrDataAfter(d)
    /\ lastOp' = "dataChange"
    /\ gesture' = <<>>
    /\ drag' = IF drag.active THEN [drag EXCEPT !.changed = TRUE] ELSE drag
    /\ Commit(Flush(view, Here, TRUE, studentId, selectedStudents, showAverage, d))
    /\ UNCHANGED <<monitor, view, mounted, studentId, selectedStudents, showAverage, zooms,
                   selectedStudentsB, colorDomainB>>

\* The press that starts a brush gesture at pixel a: the brush keeps the
\* gesture in the listeners it registers on the window, and the brushed
\* handler it will call closes over the xScale of the chart on display.
BrushStart(a) ==
    /\ view = "single" /\ mounted /\ svg.axes
    /\ ~drag.active
    /\ zooms < MaxZoom
    /\ drag' = [active |-> TRUE, a |-> a, domain |-> svg.domain, changed |-> FALSE]
    /\ lastOp' = "brushstart"
    /\ gesture' = <<>>
    /\ recomputes' = 0
    /\ UNCHANGED <<monitor, view, hr_data, mounted, studentId, selectedStudents, timeRange,
                   showAverage, svg, hover, hoverTs, deps, zooms, colorDomain,
                   selectedStudentsB, colorDomainB, reveal, tooltips>>

\* The release that ends the gesture at pixel b: the brush calls the brushed
\* handler it was given when the gesture started.
BrushEnd(b) ==
    /\ view = "single" /\ mounted
    /\ drag.active
    /\ Brushed(drag.domain, drag.a, b)
    /\ drag' = NoDrag
    /\ hr_data' = HrDataAfter(hr_data)
    /\ UNCHANGED <<monitor, view, mounted, studentId, selectedStudents,
                   showAverage, selectedStudentsB, colorDomainB>>

\* The brush gesture follows the pointer to the brush's own handler.
BrushedOnMove(x) ==
    /\ view = "single" /\ mounted
    /\ drag.active
    /\ Brushed(drag.domain, drag.a, x)
    /\ hr_data' = HrDataAfter(hr_data)
    /\ UNCHANGED <<monitor, view, mounted, studentId, selectedStudents,
                   showAverage, selectedStudentsB, colorDomainB, drag>>

\* The pointer moves to pixel x while the button is held: the brush redraws
\* its selection rectangle; brushed is registered for 'end' only.
DragMove(x) ==
    /\ view = "single" /\ mounted
    /\ drag.active
    /\ lastOp' = "dragmove"
    /\ recomputes' = 0
    /\ UNCHANGED <<monitor, view, hr_data, mounted, studentId, selectedStudents, timeRange,
                   showAverage, svg, hover, hoverTs, deps, gesture, zooms,
                   colorDomain, selectedStudentsB, colorDomainB, drag, reveal,
                   tooltips>>

\* While the button is held, nothing else is clicked.
NextLive ==
    \/ /\ ~drag.active
       /\ \/ Mount
          \/ resetZoom
          \/ \E s \in {S1, S2, S10, S11, S12} : handleStudentChange(s)
          \/ toggleAverage
          \/ \E s \in {S1, S2, S10, S11, S12} : toggleStudentSelection(s)
          \/ selectAllStudents
          \/ clearSelections
          \/ toggleAverages
          \/ \E x \in PixelsS : MouseMoveS(x)
          \/ \E x \in PixelsM : MouseMoveM(x)
          \/ MouseOut
    \/ \E d \in LiveDatasets : DataChange(d)
    \/ \E x \in BrushPixels : DragMove(x)
    \/ \E a \in BrushPixels : BrushStart(a)
    \/ \E b \in BrushPixels : BrushEnd(b)

InitLive == Init /\ hr_data \in LiveDatasets

SpecLive == InitLive /\ [][NextLive]_vars

(* ------------- sortStudentIds over lists of identifiers --------------- *)

\* Longest list of subjects, in order of first occurrence in the samples.
MaxIds == 3

\* One sample per entry of the list l of identifiers.
SamplesOf(l) == [i \in 1..Len(l) |-> Sample(l[i], 10 * i, 80)]

IdLists == UNION {[1..n -> {S1, S2, S10, S11, S12}] : n \in 0..MaxIds}

InitSort ==
    /\ view = "multi"
    /\ hr_data \in {SamplesOf(l) : l \in IdLists}
    /\ mounted = FALSE
    /\ studentId = S1
    /\ selectedStudents = <<>>
    /\ timeRange = [start |-> Null, end |-> Null]
    /\ showAverage = FALSE
    /\ svg = NoSurface
    /\ hover = <<>>
    /\ hoverTs = Null
    /\ deps = {}
    /\ recomputes = 0
    /\ lastOp = "init"
    /\ gesture = <<>>
    /\ zooms = 0
    /\ colorDomain = BaseColorDomain
    /\ selectedStudentsB = <<>>
    /\ colorDomainB = BaseColorDomain
    /\ drag = NoDrag
    /\ reveal = 0
    /\ tooltips = 0
    /\ heartRate = 100
    /\ selectedStudent = ""
    /\ showSettings = FALSE

\* Select All applies sortStudentIds to the subjects of the samples.
NextSort ==
    \/ Mount
    \/ selectAllStudents
    \/ clearSelections

SpecSort == InitSort /\ [][NextSort]_vars

(* ------------------- the reveal animation of the paths ---------------- *)

\* Time passes: the transitions of the paths on the surface, which createChart
\* started together with duration(1000), advance by one step.
Tick ==
    /\ mounted /\ svg.paths # <<>>
    /\ reveal < RevealSteps
    /\ reveal' = reveal + 1
    /\ UNCHANGED <<monitor, view, hr_data, mounted, studentId, selectedStudents, timeRange,
                   showAverage, svg, hover, hoverTs, deps, recomputes, lastOp,
                   gesture, zooms, colorDomain, selectedStudentsB, colorDomainB,
                   drag, tooltips>>

InitReveal == Init /\ view = "multi" /\ hr_data \in {DataA, DataB}

NextReveal ==
    \/ Mount
    \/ \E s \in {S1, S2, S10, S11, S12} : toggleStudentSelection(s)
    \/ selectAllStudents
    \/ clearSelections
    \/ toggleAverages
    \/ Tick

SpecReveal == InitReveal /\ [][NextReveal]_vars

(* ------------------------------ claims -------------------------------- *)

\* The time the chart's inverse time scale gives pixel x.
TimeAt(x) == Invert(view, svg.domain, x)

InWindow(d) == TsMs(d) >= timeRange.start /\ TsMs(d) <= timeRange.end

\* C1: a brush gesture from pixel a to pixel b with |a - b| >= 2 leaves
\* TimeWindow = (min(time(a), time(b)), max(time(a), time(b))), time() being
\* the inverse time scale of the chart the brush was drawn on, once the
\* recompute the brush triggers has finished.
C1_BrushCommitsExtent ==
    [][ (lastOp' = "brushed" /\ Abs(gesture'[1] - gesture'[2]) >= 2)
        => timeRange' =
             [start |-> Min2(TimeAt(gesture'[1]), TimeAt(gesture'[2])),
              end |-> Max2(TimeAt(gesture'[1]), TimeAt(gesture'[2]))] ]_vars

C3_ResetRestoresFullExtent ==
    (lastOp = "resetZoom" /\ hr_data # <<>>)
    => /\ \A i \in 1..Len(hr_data) : InWindow(hr_data[i])
       /\ \E i \in 1..Len(hr_data) : TsMs(hr_data[i]) = timeRange.start
       /\ \E i \in 1..Len(hr_data) : TsMs(hr_data[i]) = timeRange.end

\* A reset that changed the window, while the selected subject's own samples
\* cover less than the full extent.
C3_Witness ==
    /\ lastOp = "resetZoom" /\ recomputes = 2
    /\ \E i \in 1..Len(hr_data) :
           /\ hr_data[i].student # studentId
           /\ \A k \in 1..Len(hr_data) :
                  hr_data[k].student = studentId
                  => hr_data[k].timestamp > hr_data[i].timestamp
    /\ \E k \in 1..Len(hr_data) : hr_data[k].student = studentId

\* The subjects on display.
Selected(s) ==
    IF view = "single" THEN s = studentId ELSE Includes(selectedStudents, s)

\* The loaded samples of subject s inside the window.
Visible(s) ==
    {hr_data[k] : k \in {j \in 1..Len(hr_data) :
                            hr_data[j].student = s /\ InWindow(hr_data[j])}}

\* C4: each series drawn and searched holds exactly the loaded samples of a
\* selected subject whose timestamp lies in [window.start, window.end], in
\* ascending order of timestamp; every selected subject with such samples
\* has its series.
C4_SeriesFilteredAndSorted ==
    (mounted /\ svg.axes)
    => /\ \A p \in 1..Len(svg.paths) :
            LET data == svg.paths[p].data
                s == svg.paths[p].student
            IN /\ Selected(s)
               /\ \A i \in 1..(Len(data) - 1) :
                      data[i].timestamp <= data[i + 1].timestamp
               /\ {data[i] : i \in 1..Len(data)} = Visible(s)
               /\ Len(data) = Cardinality(Visible(s))
       /\ \A k \in 1..Len(hr_data) :
            (Selected(hr_data[k].student) /\ InWindow(hr_data[k]))
            => \E p \in 1..Len(svg.paths) : svg.paths[p].student = hr_data[k].student

\* A series of two or more samples that were loaded out of order, with a
\* sample of its subject left out by the window.
C4_Witness ==
    /\ mounted /\ svg.axes
    /\ \E p \in 1..Len(svg.paths) :
         LET data == svg.paths[p].data
             s == svg.paths[p].student
         IN /\ Len(data) >= 2
            /\ data # SelectSeq(hr_data, LAMBDA d : d.student = s /\ InWindow(d))
            /\ \E k \in 1..Len(hr_data) :
                   hr_data[k].student = s /\ ~InWindow(hr_data[k])

Dist(d, q) == Abs(TsMs(d) - q)

\* C5: the single view's pointer-move reports the sample of the series that
\* minimizes |timestamp - query|, the earlier one of two equidistant samples.
C5_NearestSampleSingle ==
    (view = "single" /\ lastOp = "mousemove")
    => /\ Len(hover) = 1
       /\ LET data == svg.paths[1].data
          IN /\ \E i \in 1..Len(data) : data[i] = hover[1]
             /\ \A i \in 1..Len(data) :
                  /\ Dist(hover[1], hoverTs) <= Dist(data[i], hoverTs)
                  /\ Dist(hover[1], hoverTs) = Dist(data[i], hoverTs)
                     => hover[1].timestamp <= data[i].timestamp

\* The query lies midway between two samples.
C5_Witness ==
    /\ view = "single" /\ lastOp = "mousemove" /\ Len(hover) = 1
    /\ \E i \in 1..Len(svg.paths[1].data) :
         /\ svg.paths[1].data[i] # hover[1]
         /\ Dist(svg.paths[1].data[i], hoverTs) = Dist(hover[1], hoverTs)

\* C6: in the multi view's pointer-move, a nearest sample is reported for
\* every visible series; none is reported only for an empty series.
C6_EverySeriesReported ==
    (view = "multi" /\ lastOp = "mousemove")
    => \A p \in 1..Len(svg.paths) :
         Len(svg.paths[p].data) > 0
         => \E h \in 1..Len(hover) : hover[h].student = svg.paths[p].student

\* C7: the legend lists the selected subjects in ascending numeric order of
\* their identifiers, whatever the order in which they were selected.
C7_LegendNumericOrder ==
    (view = "multi" /\ svg.axes)
    => /\ {svg.legend[i] : i \in 1..Len(svg.legend)}
            = {selectedStudents[i] : i \in 1..Len(selectedStudents)}
       /\ \A i, j \in 1..Len(svg.legend) :
            i < j => ParseInt(svg.legend[i]) < ParseInt(svg.legend[j])

\* C8: the color of a subject depends only on its identifier: two sessions
\* that select the same subjects in different orders give every subject the
\* same palette color.
C8_ColorDependsOnIdOnly ==
    \A s \in {S11, S12} :
        (InDomain(colorDomain, s) /\ InDomain(colorDomainB, s))
        => ColorIndex(colorDomain, s) = ColorIndex(colorDomainB, s)

\* C9: whenever the selection of the multi view is empty, the surface holds
\* the empty-selection message and no series path, axis, legend or mean line.
C9_EmptySelectionState ==
    (view = "multi" /\ mounted /\ selectedStudents = <<>>)
    => /\ svg.msgs >= 1
       /\ svg.paths = <<>>
       /\ ~svg.axes
       /\ svg.legend = <<>>
       /\ svg.meanLines = <<>>

\* The last selected subject has just been toggled off, averages shown.
C9_Witness ==
    /\ view = "multi" /\ lastOp = "toggleStudentSelection"
    /\ selectedStudents = <<>> /\ showAverage

\* The operations that change the view state.  A brush gesture changes it
\* when its extent is not empty.
Mutated ==
    \/ lastOp \in {"resetZoom", "handleStudentChange", "toggleAverage",
                   "toggleStudentSelection", "selectAllStudents",
                   "clearSelections", "toggleAverages"}
    \/ lastOp = "brushed" /\ gesture[1] # gesture[2]

\* C10: every mutation of the view state triggers exactly one recompute,
\* counting the explicit createChart calls together with the runs of the
\* reactive effect.
C10_ExactlyOneRecompute == Mutated => recomputes = 1

\* C11: once TimeWindow is initialised, only a brush commit and resetZoom
\* change it: every other operation, and the recompute it triggers, leaves
\* TimeWindow as it was, also when its start or end is 0.  (Stated for a
\* window that was initialised from a non-empty sample set.)
C11_WindowChangedOnlyByBrushOrReset ==
    [][ (timeRange.start # Null /\ timeRange.end # Null /\ hr_data # <<>>
         /\ lastOp' \notin {"brushed", "resetZoom"})
        => timeRange' = timeRange ]_vars

\* C12: toggleAverage (single view) and toggleAverages (multi view) leave
\* TimeWindow and the subject selection as they were before the toggle.
C12_ToggleKeepsWindowAndSelection ==
    [][ lastOp' \in {"toggleAverage", "toggleAverages"}
        => /\ timeRange' = timeRange
           /\ studentId' = studentId
           /\ selectedStudents' = selectedStudents ]_vars

\* The average has been switched on over a window narrowed by a brush.
C12_Witness ==
    /\ lastOp = "toggleAverage" /\ showAverage /\ zooms >= 1
    /\ timeRange # FullRange(hr_data)
    /\ svg.meanLines # <<>>

\* A recompute that filters samples has just run: every createChart of the
\* single view, and those of the multi view on a non-empty selection.
Filtered ==
    recomputes > 0 /\ (view = "single" \/ selectedStudents # <<>>)

\* C13: no recompute filters samples or builds the time scale with an unset
\* window, and the first one, entered with the window unset, leaves
\* TimeWindow = (minimum timestamp, maximum timestamp) of the loaded samples.
C13_FirstRecomputeOnFullExtent ==
    [][ Filtered'
        => /\ timeRange'.start # Null /\ timeRange'.end # Null
           /\ svg'.axes => svg'.domain = << DateMs(timeRange'.start),
                                           DateMs(timeRange'.end) >>
           /\ (timeRange.start = Null /\ hr_data # <<>>)
              => /\ \A i \in 1..Len(hr_data) :
                       /\ TsMs(hr_data[i]) >= timeRange'.start
                       /\ TsMs(hr_data[i]) <= timeRange'.end
                 /\ \E i \in 1..Len(hr_data) : TsMs(hr_data[i]) = timeRange'.start
                 /\ \E i \in 1..Len(hr_data) : TsMs(hr_data[i]) = timeRange'.end ]_vars

\* The first createChart of the multi view has run, on samples that do not
\* start at 0: the first subject was selected with the average switched on
\* before.
C13_Witness ==
    /\ view = "multi" /\ lastOp = "toggleStudentSelection"
    /\ Len(selectedStudents) = 1 /\ showAverage
    /\ svg.axes /\ svg.domain[1] > 0
    /\ colorDomain = ColorCall(BaseColorDomain, selectedStudents[1])

\* C14: in every reachable state in which TimeWindow is set, start <= end.
C14_WindowOrdered ==
    (timeRange.start # Null /\ timeRange.end # Null)
    => timeRange.start <= timeRange.end

\* A brush drawn from right to left has committed a narrower window.
C14_Witness ==
    /\ lastOp = "brushed" /\ gesture[1] > gesture[2]
    /\ timeRange # FullRange(hr_data)
    /\ timeRange.start < timeRange.end

\* C15: no sample with a negative bpm value is in a series that is drawn,
\* averaged or searched for the nearest point.
C15_NoMalformedSample ==
    /\ \A p \in 1..Len(svg.paths) :
          \A i \in 1..Len(svg.paths[p].data) : svg.paths[p].data[i].value >= 0
    /\ \A h \in 1..Len(hover) : hover[h].value >= 0

\* The samples a recompute of the state on display filters out of hr_data:
\* those of the subjects selected, inside the window.
FilteredNow ==
    SelectSeq(hr_data, LAMBDA d : /\ Selected(d.student)
                                  /\ TsMs(d) >= OrZero(timeRange.start)
                                  /\ TsMs(d) <= OrZero(timeRange.end))

C17_DoubleClickResets ==
    (lastOp = "dblclick")
    => \A i \in 1..Len(hr_data) : InWindow(hr_data[i])

\* C18: sortStudentIds returns a permutation of its input in ascending
\* order of the integer after the "S" ("S10" after "S2"): seen on the
\* selection that Select All stores.
C18_SortIsNumeric ==
    (lastOp = "selectAllStudents")
    => LET students == UniqueStudents(hr_data)
           out == selectedStudents
       IN /\ Len(out) = Len(students)
          /\ \A i \in 1..Len(students) :
                Cardinality({k \in 1..Len(out) : out[k] = students[i]}) = 1
          /\ \A i \in 1..(Len(out) - 1) :
                ParseInt(out[i]) <= ParseInt(out[i + 1])

\* A sorted list in which numeric and lexical order differ, from an input
\* that was in neither order.
C18_Witness ==
    /\ lastOp = "selectAllStudents"
    /\ selectedStudents = <<S2, S10, S11>>
    /\ UniqueStudents(hr_data) = <<S11, S2, S10>>

\* C19: in the multi view, a completed drag over the chart area from pixel a
\* to pixel b # a sets TimeWindow to the times of the two pixels and triggers
\* a recompute.
C19_MultiViewDragZooms ==
    [][ lastOp' = "drag"
        => /\ timeRange' =
                [start |-> Min2(TimeAt(gesture'[1]), TimeAt(gesture'[2])),
                 end |-> Max2(TimeAt(gesture'[1]), TimeAt(gesture'[2]))]
           /\ recomputes' >= 1 ]_vars

\* C20: when the loaded samples change while a brush gesture is in progress
\* and the gesture is then released with a non-empty extent, TimeWindow
\* becomes the times that the inverse time scale of the chart on display at
\* the release, computed after the change, gives the two pixels.  (Stated
\* for extents that do not start at time 0 under that scale nor under the
\* scale of the chart the gesture started on.)
C20_ReleaseUsesPostUpdateScale ==
    [][ (/\ drag.active /\ drag.changed /\ svg.axes
         /\ lastOp' = "brushed" /\ gesture'[1] # gesture'[2]
         /\ Min2(TimeAt(gesture'[1]), TimeAt(gesture'[2])) # 0
         /\ Invert(view, drag.domain, Min2(gesture'[1], gesture'[2])) # 0)
        => timeRange' =
             [start |-> Min2(TimeAt(gesture'[1]), TimeAt(gesture'[2])),
              end |-> Max2(TimeAt(gesture'[1]), TimeAt(gesture'[2]))] ]_vars

\* C21: in the multi view, selecting an additional subject while the reveal
\* animation of an already visible series is in flight leaves that series'
\* animation running: its progress is not taken back to the start.
C21_RevealNotRestarted ==
    [][ (/\ lastOp' = "toggleStudentSelection"
         /\ Len(selectedStudents') > Len(selectedStudents)
         /\ reveal > 0 /\ reveal < RevealSteps
         /\ \E p \in 1..Len(svg.paths) : \E q \in 1..Len(svg'.paths) :
                svg.paths[p].student = svg'.paths[q].student)
        => reveal' >= reveal ]_vars

\* What a pointer event leaves alone: no recompute, and TimeWindow, the
\* selection, the toggles and the chart as they were.
PointerFrame ==
    /\ recomputes' = 0
    /\ timeRange' = timeRange
    /\ studentId' = studentId
    /\ selectedStudents' = selectedStudents
    /\ showAverage' = showAverage
    /\ svg' = svg

\* C22: a pointer-move or pointer-out event, also between the start and the
\* end of a drag, triggers no recompute and changes neither TimeWindow, the
\* selection nor the toggles; a drag causes no recompute before its release.
C22_PointerEventsKeepState ==
    [][ /\ lastOp' \in {"mousemove", "mouseout", "dragmove"} => PointerFrame
        /\ (drag'.active /\ lastOp' # "dataChange") => PointerFrame ]_vars

\* The pointer has moved during a drag over a chart that was zoomed before
\* and redrawn for new samples since the drag started.
C22_Witness ==
    /\ lastOp = "dragmove" /\ drag.active /\ drag.changed
    /\ zooms = 1 /\ svg.axes

\* C23: after a recompute whose set of visible values is empty, the surface
\* holds the axes together with the no-data message.
C23_EmptyValuesStillDrawAxes ==
    (mounted /\ recomputes > 0 /\ FilteredNow = <<>>)
    => (svg.axes /\ svg.msgs >= 1)

\* The loaded samples of subject s inside the window, as a sequence.
VisibleSeq(s) == SelectSeq(hr_data, LAMBDA d : d.student = s /\ InWindow(d))

\* C24: on a chart drawn with the average toggle on there is exactly one
\* mean line per drawn series, at the arithmetic mean (sum / count) of the
\* in-window values of its subject; with the toggle off there is none.
C24_MeanLinePerSeries ==
    (mounted /\ svg.axes)
    => IF showAverage
       THEN /\ Len(svg.meanLines) = Len(svg.paths)
            /\ \A p \in 1..Len(svg.paths) :
                  LET s == svg.paths[p].student
                  IN /\ svg.meanLines[p].student = s
                     /\ svg.meanLines[p].n = Len(VisibleSeq(s))
                     /\ svg.meanLines[p].n >= 1
                     /\ svg.meanLines[p].sum = SumValues(VisibleSeq(s))
       ELSE svg.meanLines = <<>>

\* The mean line of a series from which the window leaves a sample out.
C24_Witness ==
    /\ view = "single" /\ mounted /\ svg.axes /\ showAverage
    /\ Len(svg.meanLines) = 1 /\ svg.meanLines[1].n >= 2
    /\ \E k \in 1..Len(hr_data) :
           hr_data[k].student = studentId /\ ~InWindow(hr_data[k])

\* xScale(xScale.invert(x)) is within one pixel of x.
WithinOnePixel(x) ==
    LET t == Invert(view, svg.domain, x)
    IN Abs(XScaleNum(view, svg.domain, t) - (x - MarginLeft) * XScaleDen(svg.domain))
           <= XScaleDen(svg.domain)

\* C25: on every chart the view draws, for every pixel x of the chart area
\* [margin.left, width - margin.right], mapping x to a time with the inverse
\* time scale and back with the time scale gives a pixel within 1 of x.
C25_ScaleRoundTrip ==
    (mounted /\ svg.axes)
    => \A x \in MarginLeft..RangeHi(view) : WithinOnePixel(x)

\* C26: no operation of either view changes the loaded sample collection:
\* its elements, their fields and their order stay as loaded.
C26_SamplesImmutable == [][hr_data' = hr_data]_vars

\* Select All on samples that were loaded neither in time order nor in order
\* of their subjects: both a series and the selection have been sorted.
C26_Witness ==
    /\ view = "multi" /\ lastOp = "selectAllStudents"
    /\ selectedStudents # UniqueStudents(hr_data)
    /\ \E p \in 1..Len(svg.paths) :
           svg.paths[p].data
             # SelectSeq(hr_data, LAMBDA d : d.student = svg.paths[p].student)

\* C27: while a view is mounted, at most one floating tooltip panel
\* (div.tooltip) is attached to the page body.
C27_AtMostOneTooltip == mounted => tooltips <= 1

(* --------------------- repeated zooms, single view --------------------- *)

\* Two samples of S1 one second apart: one pixel of the chart is 1.6 ms, and
\* the pixel next to the left edge is the time 1.001 s.
DataE == << Sample(S1, 1, 100), Sample(S1, 2, 110) >>

InitZoom ==
    /\ view = "single"
    /\ hr_data \in {DataA, DataE}
    /\ mounted = FALSE
    /\ studentId = S1
    /\ selectedStudents = <<>>
    /\ timeRange = [start |-> Null, end |-> Null]
    /\ showAverage = FALSE
    /\ svg = NoSurface
    /\ hover = <<>>
    /\ hoverTs = Null
    /\ deps = {}
    /\ recomputes = 0
    /\ lastOp = "init"
    /\ gesture = <<>>
    /\ zooms = 0
    /\ colorDomain = BaseColorDomain
    /\ selectedStudentsB = <<>>
    /\ colorDomainB = BaseColorDomain
    /\ drag = NoDrag
    /\ reveal = 0
    /\ tooltips = 0
    /\ heartRate = 100
    /\ selectedStudent = ""
    /\ showSettings = FALSE

NextZoom ==
    \/ Mount
    \/ \E a \in BrushPixels, b \in BrushPixels : Brush(a, b)
    \/ resetZoom
    \/ toggleAverage

SpecZoom == InitZoom /\ [][NextZoom]_vars

\* C28: in the single view, the window a brush commits is contained in the
\* window that was current when the gesture started.
C28_BrushNarrowsWindow ==
    [][ (lastOp' = "brushed" /\ gesture'[1] # gesture'[2])
        => /\ timeRange'.start >= timeRange.start
           /\ timeRange'.end <= timeRange.end ]_vars

\* C29: in the multi view, no subject occurs more than once in the selection
\* list, whatever sequence of toggles, Select All and Clear All was applied.
C29_NoDuplicateSelection ==
    \A i, j \in 1..Len(selectedStudents) :
        selectedStudents[i] = selectedStudents[j] => i = j

C29_Witness ==
    /\ view = "multi" /\ lastOp = "toggleStudentSelection"
    /\ Len(selectedStudents) = 2

(* ----------------------------- ECG monitor ---------------------------- *)

\* const studentData: the heart rate of each subject of the select.
studentData ==
    ("S1" :> 106) @@ ("S2" :> 120) @@ ("S3" :> 104) @@ ("S4" :> 93) @@
    ("S5" :> 95) @@ ("S6" :> 104) @@ ("S7" :> 101) @@ ("S8" :> 102) @@
    ("S9" :> 87) @@ ("S10" :> 106)

\* The amounts of the four adjustment buttons and the three presets.
Amounts == {-5, -1, 1, 5}

Presets == {60, 120, 180}

NoClamp(lo, hi, x) == x

\* Math.max(lo, Math.min(hi, x))
Clamp(lo, hi, x) == Max2(lo, Min2(hi, x))

\* Everything outside the monitor component.
charts == <<view, hr_data, mounted, studentId, selectedStudents, timeRange,
            showAverage, svg, hover, hoverTs, deps, recomputes,
            gesture, zooms, colorDomain, selectedStudentsB, colorDomainB, drag,
            reveal, tooltips>>

\* toggleSettings: showSettings = !showSettings.
toggleSettings ==
    /\ showSettings' = ~showSettings
    /\ lastOp' = "toggleSettings"
    /\ UNCHANGED <<heartRate, selectedStudent, charts>>

\* adjustHeartRate(amount), from a button of the open settings panel.
adjustHeartRate(amount) ==
    /\ showSettings
    /\ heartRate' = Clamp(HeartRateMin, HeartRateMax, heartRate + amount)
    /\ lastOp' = "adjustHeartRate"
    /\ UNCHANGED <<selectedStudent, showSettings, charts>>

\* A preset button of the open settings panel: heartRate = 60 | 120 | 180.
Preset(v) ==
    /\ showSettings
    /\ heartRate' = v
    /\ lastOp' = "preset"
    /\ UNCHANGED <<selectedStudent, showSettings, charts>>

\* handleStudentChange of the monitor: the select changes to a subject or
\* back to the empty option.
handleStudentChangeMonitor(student) ==
    /\ selectedStudent' = student
    /\ heartRate' = IF student # "" THEN studentData[student] ELSE heartRate
    /\ lastOp' = "handleStudentChangeMonitor"
    /\ UNCHANGED <<showSettings, charts>>

InitEcg ==
    /\ view = "ecg"
    /\ hr_data = <<>>
    /\ mounted = FALSE
    /\ studentId = S1
    /\ selectedStudents = <<>>
    /\ timeRange = [start |-> Null, end |-> Null]
    /\ showAverage = FALSE
    /\ svg = NoSurface
    /\ hover = <<>>
    /\ hoverTs = Null
    /\ deps = {}
    /\ recomputes = 0
    /\ lastOp = "init"
    /\ gesture = <<>>
    /\ zooms = 0
    /\ colorDomain = BaseColorDomain
    /\ selectedStudentsB = <<>>
    /\ colorDomainB = BaseColorDomain
    /\ drag = NoDrag
    /\ reveal = 0
    /\ tooltips = 0
    /\ heartRate = 100
    /\ selectedStudent = ""
    /\ showSettings = FALSE

NextEcg ==
    \/ toggleSettings
    \/ \E amount \in Amounts : adjustHeartRate(amount)
    \/ \E v \in Presets : Preset(v)
    \/ \E student \in DOMAIN studentData \cup {""} : handleStudentChangeMonitor(student)

SpecEcg == InitEcg /\ [][NextEcg]_vars

\* C30: in the ECG monitor, heartRate stays within [40, 200] after any
\* sequence of adjustHeartRate calls, presets and student selections.
C30_HeartRateInRange == heartRate >= HeartRateMin /\ heartRate <= HeartRateMax

C30_Witness ==
    /\ lastOp = "adjustHeartRate" /\ selectedStudent = "S9"
    /\ heartRate \in {HeartRateMin, HeartRateMax}

=============================================================================
